---- MODULE Spec2Model ----
(***************************************************************************)
(* Model of samples/realtime/realtimewebservices.ipynb: the notebook cells *)
(* that read a dataset, fit the pipeline, save the model and the schema,   *)
(* and the scoring adapter init()/run() that the notebook saves to         *)
(* testing.py.  Two Python processes share the working directory: the      *)
(* notebook kernel, which runs the cells, and a service process built from *)
(* the saved script.  init() and run() are called in one of them (host):   *)
(* in the kernel by the notebook's test cell, or in the service process by *)
(* the web service host, which binds sc, spark and azuremlutilities.       *)
(***************************************************************************)
EXTENDS Integers, Sequences, FiniteSets, TLC

VARIABLES host, df2, pipeline, inputSchema, imported, modelFile, schemaFile,
          ret, initCompleted, fresh, memo

vars == <<host, df2, pipeline, inputSchema, imported, modelFile, schemaFile,
          ret, initCompleted, fresh, memo>>

(***************************************************************************)
(* Bounds                                                                  *)
(***************************************************************************)
\* number of distinct dataset contents per dataset structure
MaxContent == 2

Procs == {"notebook", "service"}

\* an unbound Python global / a file that does not exist
Undefined == [def |-> FALSE]

(***************************************************************************)
(* Datasets: spark.read.csv(..., header=True, inferSchema=True) yields a   *)
(* StructType of named, typed columns; the label column is MEDV.           *)
(***************************************************************************)
LabelCol == "MEDV"

StructA == << [name |-> "CRIM", dataType |-> "DoubleType"],
              [name |-> "CHAS", dataType |-> "IntegerType"],
              [name |-> "MEDV", dataType |-> "DoubleType"] >>

StructB == << [name |-> "CRIM", dataType |-> "DoubleType"],
              [name |-> "MEDV", dataType |-> "DoubleType"] >>

Structures == {StructA, StructB}

\* the housing dataset in each of its contents, and one dataset of another structure
Datasets == [schema : {StructA}, content : 1..MaxContent] \cup {[schema |-> StructB, content |-> 1]}

NullValue == [t |-> "null", v |-> 0]

(***************************************************************************)
(* JSON text.  A request string is a sequence of lexical tokens; an        *)
(* integer literal and a floating point literal are different tokens.      *)
(***************************************************************************)
IntToks == <<"0", "1">>
DblToks == <<"0.0", "1.0">>

IsIntTok(tok) == \E i \in 1..Len(IntToks) : IntToks[i] = tok
IsDblTok(tok) == \E i \in 1..Len(DblToks) : DblToks[i] = tok

NumOfTok(tok) ==
  IF IsIntTok(tok)
    THEN [kind |-> "num", t |-> "int",
          v |-> (CHOOSE i \in 1..Len(IntToks) : IntToks[i] = tok) - 1]
    ELSE [kind |-> "num", t |-> "double",
          v |-> (CHOOSE i \in 1..Len(DblToks) : DblToks[i] = tok) - 1]

ParseFail == [ok |-> FALSE, pos |-> 0]

RECURSIVE ParseValue(_, _), ParseElems(_, _, _)

\* json decoder: one value starting at token i
ParseValue(toks, i) ==
  IF i > Len(toks) THEN ParseFail
  ELSE IF toks[i] = "["
    THEN IF i + 1 <= Len(toks) /\ toks[i + 1] = "]"
           THEN [ok |-> TRUE, val |-> [kind |-> "list", items |-> <<>>], pos |-> i + 2]
           ELSE ParseElems(toks, i + 1, <<>>)
  ELSE IF IsIntTok(toks[i]) \/ IsDblTok(toks[i])
    THEN [ok |-> TRUE, val |-> NumOfTok(toks[i]), pos |-> i + 1]
  ELSE ParseFail

\* json decoder: the elements of an array, up to and including its "]"
ParseElems(toks, i, acc) ==
  LET r == ParseValue(toks, i) IN
  IF ~r.ok THEN ParseFail
  ELSE IF r.pos > Len(toks) THEN ParseFail
  ELSE IF toks[r.pos] = ","
    THEN ParseElems(toks, r.pos + 1, Append(acc, r.val))
  ELSE IF toks[r.pos] = "]"
    THEN [ok |-> TRUE, val |-> [kind |-> "list", items |-> Append(acc, r.val)],
          pos |-> r.pos + 1]
  ELSE ParseFail

\* json.loads(inputString): the whole string must be one value
JsonLoads(toks) ==
  LET r == ParseValue(toks, 1) IN
  IF r.ok /\ r.pos = Len(toks) + 1 THEN [ok |-> TRUE, val |-> r.val]
  ELSE [ok |-> FALSE]

(***************************************************************************)
(* Schema artifact: saveSchema writes the StructType as JSON (field name   *)
(* and type name), loadSchema rebuilds the StructType from it.             *)
(***************************************************************************)
TypeName(dt) == IF dt = "DoubleType" THEN "double" ELSE "integer"
TypeOfName(n) == IF n = "double" THEN "DoubleType" ELSE "IntegerType"

saveSchema(df) ==
  [def |-> TRUE,
   fields |-> [i \in 1..Len(df.schema) |->
                 [name |-> df.schema[i].name, type |-> TypeName(df.schema[i].dataType)]]]

loadSchema(file) ==
  [def |-> TRUE,
   fields |-> [i \in 1..Len(file.fields) |->
                 [name |-> file.fields[i].name,
                  dataType |-> TypeOfName(file.fields[i].type)]]]

(***************************************************************************)
(* Pipeline: RFormula("MEDV~.") followed by GBTRegressor, fit on df2.      *)
(***************************************************************************)
RECURSIVE TermsOf(_)
\* the formula "MEDV~." resolves to every column but the label, in order
TermsOf(schema) ==
  IF schema = <<>> THEN <<>>
  ELSE IF Head(schema).name = LabelCol THEN TermsOf(Tail(schema))
  ELSE <<Head(schema).name>> \o TermsOf(Tail(schema))

\* the fitted PipelineModel; the trees are a function of the training data
Fit(df) ==
  [def |-> TRUE,
   stages |-> << [type |-> "RFormulaModel", label |-> LabelCol, terms |-> TermsOf(df.schema)],
                 [type |-> "GBTRegressionModel", trees |-> df.content] >>]

\* variant: save without overwrite() keeps a directory that already exists
WriteNoOverwrite(old, pm) ==
  IF old.def THEN old
  ELSE [def |-> TRUE,
        metadata |-> [class |-> "PipelineModel", numStages |-> Len(pm.stages)],
        rformula |-> [label |-> pm.stages[1].label, terms |-> pm.stages[1].terms],
        gbt |-> [trees |-> pm.stages[2].trees]]

\* pipeline.write().overwrite().save(path): the directory is replaced
WriteOverwrite(old, pm) ==
  [def |-> TRUE,
   metadata |-> [class |-> "PipelineModel", numStages |-> Len(pm.stages)],
   rformula |-> [label |-> pm.stages[1].label, terms |-> pm.stages[1].terms],
   gbt |-> [trees |-> pm.stages[2].trees]]

\* PipelineModel.load(path)
PipelineModelLoad(file) ==
  [def |-> TRUE,
   stages |-> << [type |-> "RFormulaModel", label |-> file.rformula.label,
                  terms |-> file.rformula.terms],
                 [type |-> "GBTRegressionModel", trees |-> file.gbt.trees] >>]

RECURSIVE SumVals(_)
SumVals(feats) == IF feats = <<>> THEN 0 ELSE Head(feats).v + SumVals(Tail(feats))

\* the regressor's prediction for a feature vector
Predict(pm, feats) ==
  [t |-> "double", v |-> (pm.stages[2].trees + SumVals(feats)) % 3]

(***************************************************************************)
(* run(): createDataFrame(inputRDD, inputSchema, None, False) applies the  *)
(* schema with verification switched off; the rows are converted when the  *)
(* job runs, at collect().                                                 *)
(***************************************************************************)
\* conversion of one Python value to a column type; with verifySchema=False
\* a value of another type is not rejected, it becomes null
FromJava(val, dataType) ==
  IF val.kind = "num" /\ val.t = "int" /\ dataType = "IntegerType"
    THEN [t |-> "int", v |-> val.v]
  ELSE IF val.kind = "num" /\ val.t = "double" /\ dataType = "DoubleType"
    THEN [t |-> "double", v |-> val.v]
  ELSE NullValue

\* variant: only a row with too few values fails the job
RowFailsShort(item, fields) ==
  \/ item.kind # "list"
  \/ Len(item.items) < Len(fields)

\* a row that is not a list, or has not as many values as the schema has
\* fields, fails the job
RowFails(item, fields) ==
  \/ item.kind # "list"
  \/ Len(item.items) # Len(fields)

ConvertRow(item, fields) ==
  [i \in 1..Len(fields) |-> FromJava(item.items[i], fields[i].dataType)]

HasColumn(fields, name) == \E i \in 1..Len(fields) : fields[i].name = name

ColIndex(fields, name) == CHOOSE i \in 1..Len(fields) : fields[i].name = name

\* RFormulaModel: the feature vector is assembled from the formula's terms
FeaturesOf(pm, fields, row) ==
  [k \in 1..Len(pm.stages[1].terms) |-> row[ColIndex(fields, pm.stages[1].terms[k])]]

\* RFormulaModel: the label column is the formula's label cast to double
LabelOf(pm, fields, row) ==
  LET x == row[ColIndex(fields, pm.stages[1].label)] IN
  IF x.t = "null" THEN NullValue ELSE [t |-> "double", v |-> x.v]

\* one row of pipeline.transform(inputDF)
ScoreRow(pm, fields, row) ==
  [hasLabel |-> HasColumn(fields, pm.stages[1].label),
   label |-> IF HasColumn(fields, pm.stages[1].label)
               THEN LabelOf(pm, fields, row) ELSE NullValue,
   prediction |-> Predict(pm, FeaturesOf(pm, fields, row))]

\* variant: the last collected row instead of the first
RowIndexLast(rows) == Len(rows)

\* the index run() applies to score.collect()
RowIndex(rows) == 1

NoFault == "none"

Faulted(name) == [fault |-> name, value |-> NullValue]

\* score = pipeline.transform(inputDF); score.collect()
Collect(pm, sch, s) ==
  LET j == JsonLoads(s) IN
  IF ~j.ok THEN [fault |-> "ValueError", rows |-> <<>>]
  ELSE IF j.val.kind # "list" THEN [fault |-> "TypeError", rows |-> <<>>]
  ELSE IF ~sch.def THEN [fault |-> "NameError", rows |-> <<>>]
  ELSE IF ~pm.def THEN [fault |-> "NameError", rows |-> <<>>]
  ELSE IF \E k \in 1..Len(pm.stages[1].terms) :
            ~HasColumn(sch.fields, pm.stages[1].terms[k])
    THEN [fault |-> "AnalysisException", rows |-> <<>>]
  ELSE IF \E i \in 1..Len(j.val.items) : RowFails(j.val.items[i], sch.fields)
    THEN [fault |-> "Py4JJavaError", rows |-> <<>>]
  ELSE IF \E i \in 1..Len(j.val.items) :
            \E k \in 1..Len(pm.stages[1].terms) :
              FeaturesOf(pm, sch.fields, ConvertRow(j.val.items[i], sch.fields))[k].t = "null"
    THEN [fault |-> "Py4JJavaError", rows |-> <<>>]
  ELSE [fault |-> NoFault,
        rows |-> [i \in 1..Len(j.val.items) |->
                    ScoreRow(pm, sch.fields, ConvertRow(j.val.items[i], sch.fields))]]

\* the body of run(inputString): return score.collect()[0]['label']
RunResult(pm, sch, s) ==
  LET c == Collect(pm, sch, s) IN
  IF c.fault # NoFault THEN Faulted(c.fault)
  ELSE IF c.rows = <<>> THEN Faulted("IndexError")
  ELSE IF ~c.rows[RowIndex(c.rows)].hasLabel THEN Faulted("ValueError")
  ELSE [fault |-> NoFault, value |-> c.rows[RowIndex(c.rows)].label]

(***************************************************************************)
(* Request strings                                                         *)
(***************************************************************************)
RECURSIVE Join(_)
Join(parts) ==
  IF Len(parts) = 1 THEN Head(parts)
  ELSE Head(parts) \o <<",">> \o Join(Tail(parts))

Arr(parts) == IF parts = <<>> THEN <<"[", "]">> ELSE <<"[">> \o Join(parts) \o <<"]">>

Row(toks) == Arr([i \in 1..Len(toks) |-> <<toks[i]>>])

RowA1 == Row(<<"0.0", "1", "1.0">>)
RowA2 == Row(<<"1.0", "0", "0.0">>)
RowB1 == Row(<<"1.0", "1.0">>)
RowB2 == Row(<<"0.0", "0.0">>)

Inputs ==
  { Arr(<<RowA1>>), Arr(<<RowA1, RowA2>>),
    Arr(<<RowB1>>), Arr(<<RowB2, RowB1>>),
    Arr(<<Row(<<"0.0", "1", "1">>)>>),        \* integer literal in the label column
    Arr(<<Row(<<"0.0", "1.0", "1.0">>)>>),    \* float literal in an integer column
    Arr(<<RowA1, RowB1>>),                    \* second row too short
    Arr(<<>>),                                \* '[]'
    Arr(<<<<"1.0">>>>),                       \* '[1.0]', a row that is no list
    <<"1.0">>,                                \* a bare number
    <<"[", "[", "0.0", ",", "1", ",", "1.0", "]">> }  \* unterminated

(***************************************************************************)
(* State                                                                   *)
(***************************************************************************)
\* the last call: what was called, where, with which request, and how it ended
NoCall == [op |-> "start", proc |-> "notebook", input |-> <<>>, fault |-> NoFault,
           value |-> NullValue, setPipeline |-> FALSE, setSchema |-> FALSE,
           replaced |-> FALSE, afterSave |-> FALSE]

Called(op, p, fault) == [NoCall EXCEPT !.op = op, !.proc = p, !.fault = fault]

\* a result run() gave earlier, since the caller last did anything but init/run
NoMemo == [valid |-> FALSE, reinit |-> FALSE]

Init ==
  /\ host \in Procs
  /\ df2 = Undefined
  /\ pipeline = [p \in Procs |-> Undefined]
  /\ inputSchema = [p \in Procs |-> Undefined]
  /\ imported = [p \in Procs |-> p = "service"]
  /\ modelFile = Undefined
  /\ schemaFile = Undefined
  /\ ret = NoCall
  /\ initCompleted = [p \in Procs |-> FALSE]
  /\ fresh = [p \in Procs |-> FALSE]
  /\ memo = NoMemo

\* a cell other than init/run ran: earlier results are no longer comparable
Invalidate ==
  /\ fresh' = [p \in Procs |-> FALSE]
  /\ memo' = NoMemo

(***************************************************************************)
(* Notebook cells                                                          *)
(***************************************************************************)
\* df2 = spark.read.csv("../datasets/housing.csv", header=True, inferSchema=True)
ReadCsv ==
  \E d \in Datasets :
    /\ df2' = [def |-> TRUE, schema |-> d.schema, content |-> d.content]
    /\ ret' = Called("read", "notebook", NoFault)
    /\ Invalidate
    /\ UNCHANGED <<host, pipeline, inputSchema, imported, modelFile, schemaFile, initCompleted>>

\* pipeline = Pipeline(stages=[formula, gbt]).fit(df2)
Train ==
  /\ IF df2.def
       THEN /\ pipeline' = [pipeline EXCEPT !["notebook"] = Fit(df2)]
            /\ ret' = Called("train", "notebook", NoFault)
       ELSE /\ pipeline' = pipeline
            /\ ret' = Called("train", "notebook", "NameError")
  /\ Invalidate
  /\ UNCHANGED <<host, df2, inputSchema, imported, modelFile, schemaFile, initCompleted>>

\* pipeline.write().overwrite().save("housing.model")
SaveModel ==
  /\ IF pipeline["notebook"].def
       THEN /\ modelFile' = WriteOverwrite(modelFile, pipeline["notebook"])
            /\ ret' = [Called("saveModel", "notebook", NoFault) EXCEPT
                         !.replaced = modelFile.def /\ modelFile # modelFile']
       ELSE /\ modelFile' = modelFile
            /\ ret' = Called("saveModel", "notebook", "NameError")
  /\ Invalidate
  /\ UNCHANGED <<host, df2, pipeline, inputSchema, imported, schemaFile, initCompleted>>

\* from azuremlcli import azuremlutilities
\* azuremlutilities.saveSchema(df2, "webserviceschema.json")
SaveSchema ==
  /\ imported' = [imported EXCEPT !["notebook"] = TRUE]
  /\ IF df2.def
       THEN /\ schemaFile' = saveSchema(df2)
            /\ ret' = Called("saveSchema", "notebook", NoFault)
       ELSE /\ schemaFile' = schemaFile
            /\ ret' = Called("saveSchema", "notebook", "NameError")
  /\ Invalidate
  /\ UNCHANGED <<host, df2, pipeline, inputSchema, modelFile, initCompleted>>

(***************************************************************************)
(* The scoring adapter                                                     *)
(***************************************************************************)
\* variant: a later init() extends the schema already bound
BindSchemaAppend(old, loaded) ==
  IF old.def THEN [def |-> TRUE, fields |-> old.fields \o loaded.fields] ELSE loaded

\* what the global inputSchema is bound to by init()
BindSchema(old, loaded) == loaded

\* variant: the schema is loaded and bound before the model
InitBodySchemaFirst(pm, sch, imp, mfile, sfile) ==
  IF ~imp
    THEN [pipeline |-> pm, inputSchema |-> sch, fault |-> "NameError",
          setPipeline |-> FALSE, setSchema |-> FALSE]
  ELSE IF ~sfile.def
    THEN [pipeline |-> pm, inputSchema |-> sch, fault |-> "IOError",
          setPipeline |-> FALSE, setSchema |-> FALSE]
  ELSE IF ~mfile.def
    THEN [pipeline |-> pm, inputSchema |-> BindSchema(sch, loadSchema(sfile)),
          fault |-> "Py4JJavaError", setPipeline |-> FALSE, setSchema |-> TRUE]
  ELSE [pipeline |-> PipelineModelLoad(mfile),
        inputSchema |-> BindSchema(sch, loadSchema(sfile)), fault |-> NoFault,
        setPipeline |-> TRUE, setSchema |-> TRUE]

\* the body of init(): the globals it leaves behind and how it ends.  The
\* model is loaded and bound first, then the schema.
InitBody(pm, sch, imp, mfile, sfile) ==
  IF ~mfile.def
    THEN [pipeline |-> pm, inputSchema |-> sch, fault |-> "Py4JJavaError",
          setPipeline |-> FALSE, setSchema |-> FALSE]
  ELSE IF ~imp
    THEN [pipeline |-> PipelineModelLoad(mfile), inputSchema |-> sch, fault |-> "NameError",
          setPipeline |-> TRUE, setSchema |-> FALSE]
  ELSE IF ~sfile.def
    THEN [pipeline |-> PipelineModelLoad(mfile), inputSchema |-> sch, fault |-> "IOError",
          setPipeline |-> TRUE, setSchema |-> FALSE]
  ELSE [pipeline |-> PipelineModelLoad(mfile),
        inputSchema |-> BindSchema(sch, loadSchema(sfile)), fault |-> NoFault,
        setPipeline |-> TRUE, setSchema |-> TRUE]

\* init()
init(p) ==
  LET b == InitBody(pipeline[p], inputSchema[p], imported[p], modelFile, schemaFile) IN
  /\ p = host
  /\ pipeline' = [pipeline EXCEPT ![p] = b.pipeline]
  /\ inputSchema' = [inputSchema EXCEPT ![p] = b.inputSchema]
  /\ ret' = [Called("init", p, b.fault) EXCEPT
               !.setPipeline = b.setPipeline, !.setSchema = b.setSchema,
               !.afterSave = ret.op = "saveModel" /\ ret.fault = NoFault /\ ret.replaced]
  /\ initCompleted' = [initCompleted EXCEPT ![p] = @ \/ b.fault = NoFault]
  /\ fresh' = [fresh EXCEPT ![p] = @ \/ b.fault = NoFault]
  /\ memo' = IF memo.valid /\ b.fault = NoFault THEN [memo EXCEPT !.reinit = TRUE] ELSE memo
  /\ UNCHANGED <<host, df2, imported, modelFile, schemaFile>>

\* variant: run() loads the model again on every call
runReloading(p, s) ==
  LET pm == IF modelFile.def THEN PipelineModelLoad(modelFile) ELSE pipeline[p]
      r == RunResult(pm, inputSchema[p], s) IN
  /\ p = host
  /\ pipeline' = [pipeline EXCEPT ![p] = pm]
  /\ ret' = [Called("run", p, r.fault) EXCEPT !.input = s, !.value = r.value]
  /\ memo' \in IF fresh[p]
                 THEN {memo, [valid |-> TRUE, reinit |-> FALSE, input |-> s,
                              fault |-> r.fault, value |-> r.value]}
                 ELSE {memo}
  /\ UNCHANGED <<host, df2, inputSchema, imported, modelFile, schemaFile,
                 initCompleted, fresh>>

\* run(inputString)
run(p, s) ==
  LET r == RunResult(pipeline[p], inputSchema[p], s) IN
  /\ p = host
  /\ ret' = [Called("run", p, r.fault) EXCEPT !.input = s, !.value = r.value]
  /\ memo' \in IF fresh[p]
                 THEN {memo, [valid |-> TRUE, reinit |-> FALSE, input |-> s,
                              fault |-> r.fault, value |-> r.value]}
                 ELSE {memo}
  /\ UNCHANGED <<host, df2, pipeline, inputSchema, imported, modelFile, schemaFile,
                 initCompleted, fresh>>

Next ==
  \/ ReadCsv
  \/ Train
  \/ SaveModel
  \/ SaveSchema
  \/ \E p \in Procs : init(p)
  \/ \E p \in Procs : \E s \in Inputs : run(p, s)

Spec == Init /\ [][Next]_vars

(***************************************************************************)
(* Properties                                                              *)
(***************************************************************************)
MatchesType(val, dataType) ==
  /\ val.kind = "num"
  /\ \/ val.t = "int" /\ dataType = "IntegerType"
     \/ val.t = "double" /\ dataType = "DoubleType"

RowMatches(item, fields) ==
  /\ item.kind = "list"
  /\ Len(item.items) = Len(fields)
  /\ \A c \in 1..Len(fields) : MatchesType(item.items[c], fields[c].dataType)

\* the string is a JSON array of at least one row, every row matching the schema
ValidInput(s, sch) ==
  LET j == JsonLoads(s) IN
  /\ sch.def
  /\ j.ok
  /\ j.val.kind = "list"
  /\ Len(j.val.items) >= 1
  /\ \A i \in 1..Len(j.val.items) : RowMatches(j.val.items[i], sch.fields)

RECURSIVE FirstClose(_, _)
FirstClose(s, i) == IF s[i] = "]" THEN i ELSE FirstClose(s, i + 1)

\* the request made of the first row of a valid request
FirstRowRequest(s) == <<"[">> \o SubSeq(s, 2, FirstClose(s, 2)) \o <<"]">>

Returned == [fault |-> ret.fault, value |-> ret.value]

\* C1: after a completed init(), run on a request whose rows all match the
\* loaded schema ends without a fault and returns one double.
C1_ValidRequestScored ==
  (ret.op = "run" /\ initCompleted[ret.proc] /\ ValidInput(ret.input, inputSchema[ret.proc]))
    => (ret.fault = NoFault /\ ret.value.t = "double")

\* C2: the value run returns is the regressor's prediction for the first row.
C2_ReturnsPrediction ==
  (ret.op = "run" /\ ret.fault = NoFault)
    => ret.value = Collect(pipeline[ret.proc], inputSchema[ret.proc], ret.input).rows[1].prediction

\* C3: run on a request of n >= 1 valid rows gives what run gives on the
\* request made of the first row alone.
C3_FirstRowOnly ==
  (ret.op = "run" /\ ValidInput(ret.input, inputSchema[ret.proc]))
    => Returned = RunResult(pipeline[ret.proc], inputSchema[ret.proc], FirstRowRequest(ret.input))

C3_Witness ==
  /\ ret.op = "run"
  /\ ret.fault = NoFault
  /\ ValidInput(ret.input, inputSchema[ret.proc])
  /\ LET c == Collect(pipeline[ret.proc], inputSchema[ret.proc], ret.input) IN
       /\ Len(c.rows) >= 2
       /\ c.rows[2].label # c.rows[1].label

C5_NoPartialInit ==
  (ret.op = "init" /\ ret.fault # NoFault) => (ret.setPipeline = ret.setSchema)

\* the loaded pipeline reads this column as a feature
IsTerm(pm, name) == \E k \in 1..Len(pm.stages[1].terms) : pm.stages[1].terms[k] = name

\* C6: init() with a missing artifact faults, and run() on a string that is
\* not a valid request for the loaded schema faults and returns nothing.
C6_AllFailuresFault ==
  /\ (ret.op = "init" /\ (~modelFile.def \/ ~schemaFile.def)) => ret.fault # NoFault
  /\ (ret.op = "run" /\ inputSchema[ret.proc].def
        /\ ~ValidInput(ret.input, inputSchema[ret.proc])) => ret.fault # NoFault

\* some row is no list, has another number of values than the schema has
\* fields, or has a value of the wrong type in a column the pipeline reads
BadRow(pm, sch, rows) ==
  \E i \in 1..Len(rows) :
    \/ rows[i].kind # "list"
    \/ Len(rows[i].items) # Len(sch.fields)
    \/ \E c \in 1..Len(sch.fields) :
         /\ IsTerm(pm, sch.fields[c].name)
         /\ ~MatchesType(rows[i].items[c], sch.fields[c].dataType)

\* every row has the schema's shape and the only values of the wrong type
\* are in columns the pipeline does not read as features
OnlyUnreadMismatch(pm, sch, rows) ==
  /\ Len(rows) >= 1
  /\ ~BadRow(pm, sch, rows)
  /\ \E i \in 1..Len(rows) : ~RowMatches(rows[i], sch.fields)

\* C6 (amended): a missing artifact in init(), malformed JSON, a request that
\* is no array, an empty array, a row of the wrong shape or with a wrong-typed
\* feature value all fault without a value; a wrong-typed value in a column
\* the pipeline does not read as a feature is not rejected: it becomes null,
\* and run returns null when it is the first row's label.
C6_FaultsExceptSilentNull ==
  /\ (ret.op = "init" /\ (~modelFile.def \/ ~schemaFile.def))
       => (ret.fault # NoFault /\ ~ret.setSchema)
  /\ (ret.op = "run" /\ inputSchema[ret.proc].def) =>
       LET j == JsonLoads(ret.input)
           pm == pipeline[ret.proc]
           sch == inputSchema[ret.proc]
       IN
       /\ (~j.ok \/ j.val.kind # "list" \/ j.val.items = <<>> \/ BadRow(pm, sch, j.val.items))
            => (ret.fault # NoFault /\ ret.value = NullValue)
       /\ (j.ok /\ j.val.kind = "list" /\ OnlyUnreadMismatch(pm, sch, j.val.items)
             /\ \A k \in 1..Len(pm.stages[1].terms) : HasColumn(sch.fields, pm.stages[1].terms[k]))
            => /\ ret.fault = NoFault
               /\ ~MatchesType(j.val.items[1].items[ColIndex(sch.fields, LabelCol)], "DoubleType")
                    => ret.value = NullValue

C6_Witness ==
  /\ ret.op = "run"
  /\ inputSchema[ret.proc].def
  /\ ret.fault # NoFault
  /\ LET j == JsonLoads(ret.input) IN
       /\ j.ok
       /\ j.val.kind = "list"
       /\ \E i \in 1..Len(j.val.items) :
            /\ j.val.items[i].kind = "list"
            /\ Len(j.val.items[i].items) > Len(inputSchema[ret.proc].fields)

\* what a pipeline gives for every request under every schema
ScoresOf(pm) ==
  [sch \in {loadSchema(saveSchema(d)) : d \in Datasets} |->
     [s \in Inputs |-> Collect(pm, sch, s)]]

InitBy(p) == ret'.op = "init" /\ ret'.proc = p

\* C8: once init() has completed in a process, its pipeline and inputSchema
\* change only when init() is executed again.
C8_OnlyInitChangesGlobals ==
  [][\A p \in Procs :
       (initCompleted[p] /\ (pipeline'[p] # pipeline[p] \/ inputSchema'[p] # inputSchema[p]))
         => InitBy(p)]_vars

\* C8 (amended): inputSchema changes only in init(); pipeline changes only in
\* init() or, in the notebook kernel, in the training cell, which assigns the
\* same global; no run() and no save of an artifact changes either.
C8_GlobalsFrame ==
  [][\A p \in Procs :
       /\ inputSchema'[p] # inputSchema[p] => InitBy(p)
       /\ pipeline'[p] # pipeline[p] => (InitBy(p) \/ (p = "notebook" /\ ret'.op = "train"))]_vars

C8_Witness ==
  /\ host = "service"
  /\ initCompleted["service"]
  /\ ret.op = "run"
  /\ ret.fault = NoFault
  /\ modelFile.def
  /\ PipelineModelLoad(modelFile) # pipeline["service"]

\* C9: a run() that returns a value is preceded by a completed init() in the
\* same process.
C9_InitBeforeRun ==
  (ret.op = "run" /\ ret.fault = NoFault) => initCompleted[ret.proc]

C9_Witness ==
  /\ ret.op = "run"
  /\ ret.proc = "service"
  /\ ~initCompleted["service"]
  /\ ret.fault = "NameError"
  /\ pipeline["service"].def

\* C10: the schema artifact init() would load has the columns of the dataset
\* the model artifact was trained on.
C10_SchemaMatchesModel ==
  (modelFile.def /\ schemaFile.def) =>
    LET sch == loadSchema(schemaFile)
        pm == PipelineModelLoad(modelFile)
    IN /\ HasColumn(sch.fields, pm.stages[1].label)
       /\ TermsOf(sch.fields) = pm.stages[1].terms

====
